---- MODULE Spec2Model ----
(***************************************************************************)
(* Model of surface_dynamics/interval_exchanges/constructors.py: the       *)
(* factory functions Permutation, GeneralizedPermutation, RauzyDiagram and *)
(* IntervalExchangeTransformation.                                         *)
(*                                                                         *)
(* A Python value that may be None is a sequence of length at most one:    *)
(* <<>> is None and <<v>> is the value v.  A raised exception is a record  *)
(* [tag |-> "raise", exc, msg]; a permutation object is the record of the  *)
(* arguments its class was instantiated with.                              *)
(***************************************************************************)
EXTENDS Integers, Sequences, FiniteSets, TLC

VARIABLES call, res, diagram

vars == <<call, res, diagram>>

(* ------------------------------ bounds -------------------------------- *)

NumLabels == 2

MaxRow == 2

MaxLengths == 2

Labels == 1..NumLabels

None == <<>>

Some(v) == <<v>>

Rows == UNION {[1..n -> Labels] : n \in 0..MaxRow}

OptBool == {None, Some(TRUE), Some(FALSE)}

OptFlips == {None} \cup {Some(S) : S \in SUBSET Labels}

Descending == [i \in 1..NumLabels |-> NumLabels + 1 - i]

OptAlphabet == {None, Some(Descending)}

\* An entry of the lengths argument: a number of value v, a numeral (a
\* string such as '-1' that float() converts to v), a word (a string such
\* as 'x' that float() rejects) or None.
Number(v) == [kind |-> "number", v |-> v]

Numeral(v) == [kind |-> "numeral", v |-> v]

Word == [kind |-> "word", v |-> 0]

NoneEntry == [kind |-> "none", v |-> 0]

LengthValues == {Number(n) : n \in -1..1} \cup {Numeral(-1), Word, NoneEntry}

LengthLists == UNION {[1..n -> LengthValues] : n \in 0..MaxLengths}

(* ------------------------- list primitives ---------------------------- *)

\* list.count(x)
Count(s, x) == Cardinality({i \in DOMAIN s : s[i] = x})

\* set(list)
Range(s) == {s[i] : i \in DOMAIN s}

\* list.index(x): first position of x, 0 when x is absent (Python raises).
Index(s, x) ==
    IF x \in Range(s) THEN CHOOSE i \in DOMAIN s : s[i] = x /\ \A j \in 1..(i - 1) : s[j] # x
    ELSE 0

\* del list[i]
Del(s, i) == [k \in 1..(Len(s) - 1) |-> IF k < i THEN s[k] ELSE s[k + 1]]

\* raise exc(msg), and raise exc(msg.format(x)): arg is None or the entry x
\* the message is formatted with.
Raise(exc, msg) == [tag |-> "raise", exc |-> exc, msg |-> msg, arg |-> <<>>]

RaiseWith(exc, msg, x) == [tag |-> "raise", exc |-> exc, msg |-> msg, arg |-> <<x>>]

IsRaise(r) == r.tag = "raise"

MsgOnce == "letters must appear once in each interval"

MsgTwice == "letters must appear twice"

MsgFlips == "flips contains not valid letters"

MsgNoLength == "no admissible length"

MsgNotFlippable == "interval exchange with flips not yet implemented"

MsgBadNumber == "bad number of lengths"

MsgNegative == "lengths must be non-negative, got {}"

MsgConvert == "unable to convert x (='%s') into a real number"

\* The messages of Python for float(None) and for '1' < 0.
MsgFloatArgument == "float() argument must be a string or a real number, not 'NoneType'"

MsgNotOrdered == "'<' not supported between instances of 'str' and 'int'"

(* ------------------- permutation objects (classes) -------------------- *)

ReducedClasses ==
    {"ReducedPermutationIET", "FlippedReducedPermutationIET",
     "ReducedPermutationLI", "FlippedReducedPermutationLI"}

FlippedClasses ==
    {"FlippedLabelledPermutationIET", "FlippedReducedPermutationIET",
     "FlippedLabelledPermutationLI", "FlippedReducedPermutationLI"}

LIClasses ==
    {"LabelledPermutationLI", "FlippedLabelledPermutationLI",
     "ReducedPermutationLI", "FlippedReducedPermutationLI"}

\* cls(a, alphabet=alphabet, reduced=reduced, flips=flips)
New(cls, a, alphabet, reduced, flips) ==
    [tag |-> "perm", cls |-> cls, a |-> a, alphabet |-> alphabet,
     reduced |-> reduced, flips |-> flips]

IsPermutation(r) == r.tag = "perm"

\* The letters of s in order of first appearance.
RECURSIVE Dedup(_)
Dedup(s) ==
    IF s = <<>> THEN <<>>
    ELSE LET front == Dedup(SubSeq(s, 1, Len(s) - 1))
             x == s[Len(s)]
         IN IF x \in Range(front) THEN front ELSE Append(front, x)

\* The discovery order of the letters of the two rows.
Discovery(a) == Dedup(a[1] \o a[2])

\* p.alphabet(): the given alphabet, by default the discovery order.
alphabet_of(p) == IF p.alphabet = None THEN Discovery(p.a) ELSE p.alphabet[1]

\* The letter a reduced permutation shows for the letter x it was built from:
\* the k-th letter discovered is shown as the k-th letter of the alphabet.
Shown(p, x) == alphabet_of(p)[Index(Discovery(p.a), x)]

\* p._labels is None
labels_is_none(p) == p.reduced

\* p._flips is not None
has_flips(p) == p.flips # None

\* p.list()
list_of(p) ==
    IF p.reduced
    THEN <<[i \in DOMAIN p.a[1] |-> Shown(p, p.a[1][i])],
           [i \in DOMAIN p.a[2] |-> Shown(p, p.a[2][i])]>>
    ELSE p.a

\* p.flips(): the flipped letters, an empty list when there is none.
flips_of(p) ==
    IF p.flips = None THEN {}
    ELSE IF p.reduced THEN {Shown(p, x) : x \in p.flips[1]}
    ELSE p.flips[1]

\* len(p)
len_of(p) == Len(p.a[1])

\* The rows with every letter replaced by its rank in the discovery order.
Pattern(a) ==
    <<[i \in DOMAIN a[1] |-> Index(Discovery(a), a[1][i])],
      [i \in DOMAIN a[2] |-> Index(Discovery(a), a[2][i])]>>

\* p == q: labelled permutations are equal when class, rows, flips and ordered
\* alphabet are; reduced ones when class, row pattern and flipped places are.
PermEq(p, q) ==
    /\ p.cls = q.cls
    /\ IF p.reduced
       THEN /\ Pattern(p.a) = Pattern(q.a)
            /\ {Index(Discovery(list_of(p)), x) : x \in flips_of(p)}
                 = {Index(Discovery(list_of(q)), x) : x \in flips_of(q)}
       ELSE /\ list_of(p) = list_of(q)
            /\ flips_of(p) = flips_of(q)
            /\ alphabet_of(p) = alphabet_of(q)

ReducedClassOf(cls) ==
    CASE cls \in {"LabelledPermutationIET", "ReducedPermutationIET"} -> "ReducedPermutationIET"
      [] cls \in {"FlippedLabelledPermutationIET", "FlippedReducedPermutationIET"} ->
            "FlippedReducedPermutationIET"
      [] cls \in {"LabelledPermutationLI", "ReducedPermutationLI"} -> "ReducedPermutationLI"
      [] cls \in {"FlippedLabelledPermutationLI", "FlippedReducedPermutationLI"} ->
            "FlippedReducedPermutationLI"

\* p.reduced(): the reduced permutation with the rows, flips and alphabet of p
reduced_of(p) ==
    New(ReducedClassOf(p.cls), list_of(p), Some(alphabet_of(p)), TRUE,
        IF p.flips = None THEN None ELSE Some(flips_of(p)))

(* ---------------------------- _two_lists ------------------------------ *)

\* The rows argument as the caller writes it: two arguments (arg1, arg2), one
\* pair (arg1 = (top, bottom), arg2 = None), or a permutation object.
TwoArgs(top, bottom) == [form |-> "two", top |-> top, bottom |-> bottom]

PairArg(top, bottom) == [form |-> "pair", top |-> top, bottom |-> bottom]

ObjArg(p) == [form |-> "obj", p |-> p]

\* _two_lists(arg1, arg2) on lists and tuples of labels.
two_lists(arg) == <<arg.top, arg.bottom>>

(* ---------------------------- Permutation ----------------------------- *)

\* FlipsInvalid with "every letter" in the place of "some letter"
FlipsInvalid_EveryLetter(flips, letters) ==
    flips # {} /\ \A letter \in flips : letter \notin letters

\* some letter of flips is not a letter of the rows
FlipsInvalid(flips, letters) == \E letter \in flips : letter \notin letters

\* NotOnceInEach with the bottom row left unchecked
NotOnceInEach_TopOnly(a, letters) == \E letter \in letters : Count(a[1], letter) # 1

\* a[0].count(letter) != 1 or a[1].count(letter) != 1, for some letter
NotOnceInEach(a, letters) ==
    \E letter \in letters : Count(a[1], letter) # 1 \/ Count(a[2], letter) # 1

\* NormalizeFlips without the replacement of an empty flips by None
NormalizeFlips_Kept(flips) == flips

\* "no flip is equivalent to not specifying the flips"
NormalizeFlips(flips) == IF flips # None /\ flips[1] = {} THEN None ELSE flips

PermutationClassIET(reduced, flips) ==
    IF reduced
    THEN IF flips = None THEN "ReducedPermutationIET" ELSE "FlippedReducedPermutationIET"
    ELSE IF flips = None THEN "LabelledPermutationIET" ELSE "FlippedLabelledPermutationIET"

\* Permutation from line 382 on: a is the pair of rows.
PermutationOfLists(a, reduced0, flips0, alphabet) ==
    LET reduced == IF reduced0 = None THEN FALSE ELSE reduced0[1]
        letters == Range(a[1] \o a[2])
        flips == NormalizeFlips(flips0)
    IN IF flips # None /\ FlipsInvalid(flips[1], letters)
       THEN Raise("ValueError", MsgFlips)
       ELSE IF NotOnceInEach(a, letters)
       THEN Raise("ValueError", MsgOnce)
       ELSE New(PermutationClassIET(reduced, flips), a, alphabet, reduced, flips)

\* The options a constructor hands on when it is given a permutation object.
ReducedOfObject(p, reduced) == IF reduced = None THEN Some(labels_is_none(p)) ELSE reduced

FlipsOfObject(p, flips) == IF flips = None THEN Some(flips_of(p)) ELSE flips

AlphabetOfObject(p, alphabet) == IF alphabet = None THEN Some(alphabet_of(p)) ELSE alphabet

Permutation(arg, reduced, flips, alphabet) ==
    IF arg.form = "obj"
    THEN PermutationOfLists(list_of(arg.p), ReducedOfObject(arg.p, reduced),
                            FlipsOfObject(arg.p, flips), AlphabetOfObject(arg.p, alphabet))
    ELSE PermutationOfLists(two_lists(arg), reduced, flips, alphabet)

(* ----------------------- GeneralizedPermutation ----------------------- *)

\* NotTwice with "more than two" in the place of "other than two"
NotTwice_MoreThanTwo(l, letters) == \E letter \in letters : Count(l, letter) > 2

\* l.count(letter) != 2, for some letter
NotTwice(l, letters) == \E letter \in letters : Count(l, letter) # 2

\* RemoveSingles with the letter deleted from b0 only
RECURSIVE RemoveSingles_TopOnly(_, _, _)
RemoveSingles_TopOnly(b0, b1, letters) ==
    IF letters = {} THEN [raised |-> FALSE, b0 |-> b0, b1 |-> b1]
    ELSE LET letter == CHOOSE x \in letters : TRUE
             rest == letters \ {letter}
         IN IF Count(b0, letter) = 1
            THEN RemoveSingles_TopOnly(Del(b0, Index(b0, letter)), b1, rest)
            ELSE RemoveSingles_TopOnly(b0, b1, rest)

\* The loop of lines 511-514: every letter that occurs once in b0 is deleted
\* from b0 and from b1; raised records that b1.index(letter) found nothing.
RECURSIVE RemoveSingles(_, _, _)
RemoveSingles(b0, b1, letters) ==
    IF letters = {} THEN [raised |-> FALSE, b0 |-> b0, b1 |-> b1]
    ELSE LET letter == CHOOSE x \in letters : TRUE
             rest == letters \ {letter}
         IN IF Count(b0, letter) = 1
            THEN IF Index(b1, letter) = 0
                 THEN [raised |-> TRUE, b0 |-> b0, b1 |-> b1]
                 ELSE RemoveSingles(Del(b0, Index(b0, letter)),
                                    Del(b1, Index(b1, letter)), rest)
            ELSE RemoveSingles(b0, b1, rest)

PermutationClassLI(reduced, flips) ==
    IF reduced
    THEN IF flips = None THEN "ReducedPermutationLI" ELSE "FlippedReducedPermutationLI"
    ELSE IF flips = None THEN "LabelledPermutationLI" ELSE "FlippedLabelledPermutationLI"

\* GeneralizedPermutation from line 492 on: a is the pair of rows.
GeneralizedPermutationOfLists(a, reduced0, flips, alphabet) ==
    LET reduced == IF reduced0 = None THEN FALSE ELSE reduced0[1]
        l == a[1] \o a[2]
        letters == Range(l)
        b == RemoveSingles(a[1], a[2], letters)
    IN IF flips # None /\ FlipsInvalid(flips[1], letters)
       THEN Raise("ValueError", MsgFlips)
       ELSE IF NotTwice(l, letters)
       THEN Raise("ValueError", MsgTwice)
       ELSE IF b.raised
       THEN Raise("ValueError", "x is not in list")
       ELSE IF b.b0 = <<>> /\ b.b1 = <<>>
       THEN PermutationOfLists(two_lists(TwoArgs(a[1], a[2])), Some(reduced), flips, alphabet)
       ELSE IF b.b0 = <<>> \/ b.b1 = <<>>
       THEN Raise("ValueError", MsgNoLength)
       ELSE New(PermutationClassLI(reduced, flips), a, alphabet, reduced, flips)

GeneralizedPermutation(arg, reduced, flips, alphabet) ==
    IF arg.form = "obj"
    THEN GeneralizedPermutationOfLists(list_of(arg.p), ReducedOfObject(arg.p, reduced),
                                       FlipsOfObject(arg.p, flips),
                                       AlphabetOfObject(arg.p, alphabet))
    ELSE GeneralizedPermutationOfLists(two_lists(arg), reduced, flips, alphabet)

(* ------------------- IntervalExchangeTransformation ------------------- *)

\* A tuple given as the permutation argument is unpacked into the positional
\* arguments (arg1, arg2, reduced, flips) of Permutation; entries left out
\* are None.
TupleArg(top, bottom, reduced, flips) ==
    [form |-> "tuple", top |-> top, bottom |-> bottom, reduced |-> reduced, flips |-> flips]

\* The lengths argument: a list, or a dict of which only the values are read.
ListLengths(vals) == [dict |-> FALSE, vals |-> vals]

DictLengths(vals) == [dict |-> TRUE, vals |-> vals]

NoRejection == [tag |-> "accepted"]

\* Lines 834-840 on the entry x: float(None) raises a TypeError that is not
\* caught, float of a word raises the ValueError that is turned into the
\* TypeError of line 837, and x < 0 is asked of x itself, which raises
\* TypeError for a numeral and decides for a number (the message shows
\* float(x)).
LengthRejection(x) ==
    CASE x.kind = "none" -> Raise("TypeError", MsgFloatArgument)
      [] x.kind = "word" -> RaiseWith("TypeError", MsgConvert, x)
      [] x.kind = "numeral" -> Raise("TypeError", MsgNotOrdered)
      [] x.kind = "number" ->
            IF x.v < 0 THEN RaiseWith("ValueError", MsgNegative, x) ELSE NoRejection

\* PermutationOfIET with GeneralizedPermutation in the place of Permutation
PermutationOfIET_Generalized(permutation) ==
    IF permutation.form = "obj" /\ has_flips(permutation.p)
    THEN Raise("TypeError", MsgNotFlippable)
    ELSE IF permutation.form = "obj" /\ permutation.p.cls = "LabelledPermutationIET"
    THEN permutation.p
    ELSE IF permutation.form = "tuple"
    THEN GeneralizedPermutation(TwoArgs(permutation.top, permutation.bottom),
                                permutation.reduced, permutation.flips, None)
    ELSE GeneralizedPermutation(permutation, None, None, None)

\* Lines 817-824: the permutation the lengths are attached to, or the
\* exception raised on the way.
PermutationOfIET(permutation) ==
    IF permutation.form = "obj" /\ has_flips(permutation.p)
    THEN Raise("TypeError", MsgNotFlippable)
    ELSE IF permutation.form = "obj" /\ permutation.p.cls = "LabelledPermutationIET"
    THEN permutation.p
    ELSE IF permutation.form = "tuple"
    THEN Permutation(TwoArgs(permutation.top, permutation.bottom),
                     permutation.reduced, permutation.flips, None)
    ELSE Permutation(permutation, None, None, None)

\* Lines 829-840: the first entry that stops the loop, 0 when none does.
FirstRejected(vals) ==
    IF \E i \in DOMAIN vals : LengthRejection(vals[i]) # NoRejection
    THEN CHOOSE i \in DOMAIN vals :
            /\ LengthRejection(vals[i]) # NoRejection
            /\ \A j \in 1..(i - 1) : LengthRejection(vals[j]) = NoRejection
    ELSE 0

\* BadNumber with "fewer lengths than letters" in the place of "another number"
BadNumber_Fewer(lengths, p) == Len(lengths.vals) < len_of(p)

\* len(lengths) != len(p)
BadNumber(lengths, p) == Len(lengths.vals) # len_of(p)

\* _IET(p, lengths)
NewIET(p, lengths) == [tag |-> "iet", p |-> p, lengths |-> lengths]

IsIET(r) == r.tag = "iet"

IntervalExchangeTransformation(permutation, lengths) ==
    LET p == PermutationOfIET(permutation)
        bad == FirstRejected(lengths.vals)
    IN IF IsRaise(p) THEN p
       ELSE IF BadNumber(lengths, p)
       THEN Raise("ValueError", MsgBadNumber)
       ELSE IF bad # 0
       THEN LengthRejection(lengths.vals[bad])
       ELSE NewIET(p, lengths)

(* ------------------- Rauzy induction and diagrams --------------------- *)

\* A vertex of a diagram: the two rows and the set of flipped letters.
Vertex(a, flips) == [a |-> a, flips |-> flips]

Last(s) == s[Len(s)]

Front(s) == SubSeq(s, 1, Len(s) - 1)

Reverse(s) == [i \in DOMAIN s |-> s[Len(s) + 1 - i]]

\* x put at position k of s
Insert(s, k, x) == SubSeq(s, 1, k - 1) \o <<x>> \o SubSeq(s, k, Len(s))

\* The other occurrence of the letter at position <<i, j>>.
Twin(a, i, j) ==
    CHOOSE t \in {<<ii, jj>> : ii \in 1..2, jj \in 1..(Len(a[1]) + Len(a[2]))} :
        /\ t[2] <= Len(a[t[1]])
        /\ t # <<i, j>>
        /\ a[t[1]][t[2]] = a[i][j]

\* The rows are those of a permutation: every letter twice, and a letter
\* doubled in one row only if some letter is doubled in the other.
Admissible(a) ==
    LET l == a[1] \o a[2]
        b == RemoveSingles(a[1], a[2], Range(l))
    IN /\ ~NotTwice(l, Range(l))
       /\ ~b.raised
       /\ (b.b0 = <<>>) <=> (b.b1 = <<>>)

\* Right induction with the row winner (1 = top, 2 = bottom) winning: the
\* last letter of the other row is moved next to the twin of the winner.
\* None when the move is not defined.
RightInduction(v, winner) ==
    LET a == v.a
        loser == 3 - winner
    IN IF a[1] = <<>> \/ a[2] = <<>> \/ Last(a[winner]) = Last(a[loser]) THEN None
       ELSE LET w == Last(a[winner])
                l == Last(a[loser])
                tw == Twin(a, winner, Len(a[winner]))
                flipped == w \in v.flips
                short == [a EXCEPT ![loser] = Front(a[loser])]
                pos == IF (tw[1] = loser) = flipped THEN tw[2] ELSE tw[2] + 1
                b == [short EXCEPT ![tw[1]] = Insert(short[tw[1]], pos, l)]
                flips == IF ~flipped THEN v.flips
                         ELSE IF l \in v.flips THEN v.flips \ {l}
                         ELSE v.flips \cup {l}
            IN IF Admissible(b) THEN Some(Vertex(b, flips)) ELSE None

LeftRightInversion(v) == Vertex(<<Reverse(v.a[1]), Reverse(v.a[2])>>, v.flips)

TopBottomInversion(v) == Vertex(<<v.a[2], v.a[1]>>, v.flips)

\* Left induction: the mirror of right induction.
LeftInduction(v, winner) ==
    LET r == RightInduction(LeftRightInversion(v), winner)
    IN IF r = None THEN None ELSE Some(LeftRightInversion(r[1]))

MoveKinds ==
    {"right_top", "right_bottom", "left_top", "left_bottom",
     "left_right_inversion", "top_bottom_inversion", "symmetric"}

\* InductionEngine: the vertex a move of the given kind leads to, or None.
Move(kind, v) ==
    CASE kind = "right_top" -> RightInduction(v, 1)
      [] kind = "right_bottom" -> RightInduction(v, 2)
      [] kind = "left_top" -> LeftInduction(v, 1)
      [] kind = "left_bottom" -> LeftInduction(v, 2)
      [] kind = "left_right_inversion" -> Some(LeftRightInversion(v))
      [] kind = "top_bottom_inversion" -> Some(TopBottomInversion(v))
      [] kind = "symmetric" -> Some(LeftRightInversion(TopBottomInversion(v)))

\* The key under which a diagram keeps a vertex: the vertex itself in
\* labelled mode, its relabelling along the alphabet in reduced mode.
Canonical(v, reduced, alphabet) ==
    IF ~reduced THEN v
    ELSE LET d == Discovery(v.a)
             shown(x) == alphabet[Index(d, x)]
         IN Vertex(<<[i \in DOMAIN v.a[1] |-> shown(v.a[1][i])],
                     [i \in DOMAIN v.a[2] |-> shown(v.a[2][i])]>>,
                   {shown(x) : x \in v.flips})

\* The move kinds a diagram explores, from its five switches.
EnabledKinds(d) ==
    (IF d.right_induction THEN {"right_top", "right_bottom"} ELSE {})
    \cup (IF d.left_induction THEN {"left_top", "left_bottom"} ELSE {})
    \cup (IF d.left_right_inversion THEN {"left_right_inversion"} ELSE {})
    \cup (IF d.top_bottom_inversion THEN {"top_bottom_inversion"} ELSE {})
    \cup (IF d.symmetric THEN {"symmetric"} ELSE {})

\* The diagram of the seed p before any exploration, s the five switches.
NewDiagram(p, s) ==
    LET seed == Canonical(Vertex(list_of(p), flips_of(p)), p.reduced, alphabet_of(p))
    IN [tag |-> "diagram", p |-> p,
        right_induction |-> s.right_induction, left_induction |-> s.left_induction,
        left_right_inversion |-> s.left_right_inversion,
        top_bottom_inversion |-> s.top_bottom_inversion, symmetric |-> s.symmetric,
        vertices |-> {seed}, frontier |-> {seed}, edges |-> {}]

\* The edges leaving the frontier of the diagram d.
FrontierEdges(d) ==
    {[from |-> v, kind |-> k,
      to |-> Canonical(Move(k, v)[1], d.p.reduced, alphabet_of(d.p))] :
        <<v, k>> \in {x \in d.frontier \X EnabledKinds(d) : Move(x[2], x[1]) # None}}

\* One round of the breadth-first exploration.
ExploreFrontier(d) ==
    LET new == FrontierEdges(d)
        reached == {e.to : e \in new}
    IN [d EXCEPT !.vertices = d.vertices \cup reached,
                 !.frontier = reached \ d.vertices,
                 !.edges = d.edges \cup new]

\* The exploration, round after round until the frontier is empty.
RECURSIVE Complete(_)
Complete(d) == IF d.frontier = {} THEN d ELSE Complete(ExploreFrontier(d))

\* p.rauzy_diagram(**s), s the five switches: the complete diagram of p.
rauzy_diagram(p, s) == Complete(NewDiagram(p, s))

(* ---------------------------- RauzyDiagram ---------------------------- *)

\* The switches as the caller passes them (None: left out).
Switches(r, l, lr, tb, sy) ==
    [right_induction |-> r, left_induction |-> l, left_right_inversion |-> lr,
     top_bottom_inversion |-> tb, symmetric |-> sy]

\* The value of a keyword argument: its default when it is left out.
Default(opt, default) == IF opt = None THEN default ELSE opt[1]

\* SwitchValues with left_induction on by default
SwitchValues_LeftOn(sw) ==
    [right_induction |-> Default(sw.right_induction, TRUE),
     left_induction |-> Default(sw.left_induction, TRUE),
     left_right_inversion |-> Default(sw.left_right_inversion, FALSE),
     top_bottom_inversion |-> Default(sw.top_bottom_inversion, FALSE),
     symmetric |-> Default(sw.symmetric, FALSE)]

\* SwitchValues with right_induction off by default
SwitchValues_RightOff(sw) ==
    [right_induction |-> Default(sw.right_induction, FALSE),
     left_induction |-> Default(sw.left_induction, FALSE),
     left_right_inversion |-> Default(sw.left_right_inversion, FALSE),
     top_bottom_inversion |-> Default(sw.top_bottom_inversion, FALSE),
     symmetric |-> Default(sw.symmetric, FALSE)]

\* The keyword defaults of RauzyDiagram.
SwitchValues(sw) ==
    [right_induction |-> Default(sw.right_induction, TRUE),
     left_induction |-> Default(sw.left_induction, FALSE),
     left_right_inversion |-> Default(sw.left_right_inversion, FALSE),
     top_bottom_inversion |-> Default(sw.top_bottom_inversion, FALSE),
     symmetric |-> Default(sw.symmetric, FALSE)]

\* The seed of the diagram (lines 733-737); reduced defaults to False.
SeedOfRauzyDiagram(arg, reduced, flips, alphabet) ==
    GeneralizedPermutation(arg, Some(Default(reduced, FALSE)), flips, alphabet)

RauzyDiagram(arg, reduced, flips, alphabet, sw) ==
    LET p == SeedOfRauzyDiagram(arg, reduced, flips, alphabet)
        s == SwitchValues(sw)
    IN IF IsRaise(p) THEN p
       ELSE rauzy_diagram(p, s)

(* --------------------------- the caller ------------------------------- *)

NoResult == [tag |-> "none"]

NoDiagram == [tag |-> "none"]

PermutationCall(arg, reduced, flips, alphabet) ==
    [fn |-> "Permutation", arg |-> arg, reduced |-> reduced, flips |-> flips,
     alphabet |-> alphabet]

GeneralizedPermutationCall(arg, reduced, flips, alphabet) ==
    [fn |-> "GeneralizedPermutation", arg |-> arg, reduced |-> reduced, flips |-> flips,
     alphabet |-> alphabet]

IETCall(permutation, lengths) ==
    [fn |-> "IntervalExchangeTransformation", permutation |-> permutation,
     lengths |-> lengths]

LengthsArgs == {ListLengths(v) : v \in LengthLists} \cup {DictLengths(v) : v \in LengthLists}

\* The calls a program starts with: a constructor applied to rows of labels.
CallsOnRows ==
    {PermutationCall(TwoArgs(top, bottom), reduced, flips, alphabet) :
        top \in Rows, bottom \in Rows, reduced \in OptBool, flips \in OptFlips,
        alphabet \in OptAlphabet}
    \cup
    {GeneralizedPermutationCall(TwoArgs(top, bottom), reduced, flips, alphabet) :
        top \in Rows, bottom \in Rows, reduced \in OptBool, flips \in OptFlips,
        alphabet \in OptAlphabet}
    \cup
    {IETCall(PairArg(top, bottom), lengths) :
        top \in Rows, bottom \in Rows, lengths \in LengthsArgs}
    \cup
    {IETCall(TupleArg(top, bottom, reduced, flips), lengths) :
        top \in Rows, bottom \in Rows, reduced \in OptBool, flips \in OptFlips,
        lengths \in LengthsArgs}

Init ==
    /\ call \in CallsOnRows
    /\ res = NoResult
    /\ diagram = NoDiagram

\* Permutation(top, bottom, reduced=..., flips=..., alphabet=...)
CallPermutation ==
    /\ res = NoResult
    /\ call.fn = "Permutation"
    /\ res' = Permutation(call.arg, call.reduced, call.flips, call.alphabet)
    /\ UNCHANGED <<call, diagram>>

\* GeneralizedPermutation(top, bottom, reduced=..., flips=..., alphabet=...)
CallGeneralizedPermutation ==
    /\ res = NoResult
    /\ call.fn = "GeneralizedPermutation"
    /\ res' = GeneralizedPermutation(call.arg, call.reduced, call.flips, call.alphabet)
    /\ UNCHANGED <<call, diagram>>

\* IntervalExchangeTransformation((top, bottom, ...), lengths) and
\* IntervalExchangeTransformation([top, bottom], lengths)
CallIET ==
    /\ res = NoResult
    /\ call.fn = "IntervalExchangeTransformation"
    /\ res' = IntervalExchangeTransformation(call.permutation, call.lengths)
    /\ UNCHANGED <<call, diagram>>

\* Permutation(p, ...) for the permutation object p returned last
CallPermutationOfObject ==
    /\ IsPermutation(res)
    /\ \E reduced \in OptBool, flips \in OptFlips, alphabet \in OptAlphabet :
        /\ call' = PermutationCall(ObjArg(res), reduced, flips, alphabet)
        /\ res' = Permutation(ObjArg(res), reduced, flips, alphabet)
    /\ UNCHANGED diagram

\* GeneralizedPermutation(p, ...) for the permutation object p returned last
CallGeneralizedPermutationOfObject ==
    /\ IsPermutation(res)
    /\ \E reduced \in OptBool, flips \in OptFlips, alphabet \in OptAlphabet :
        /\ call' = GeneralizedPermutationCall(ObjArg(res), reduced, flips, alphabet)
        /\ res' = GeneralizedPermutation(ObjArg(res), reduced, flips, alphabet)
    /\ UNCHANGED diagram

\* IntervalExchangeTransformation(p, lengths) for the permutation object p
\* returned last
CallIETOfObject ==
    /\ IsPermutation(res)
    /\ \E lengths \in LengthsArgs :
        /\ call' = IETCall(ObjArg(res), lengths)
        /\ res' = IntervalExchangeTransformation(ObjArg(res), lengths)
    /\ UNCHANGED diagram

Next ==
    \/ CallPermutation
    \/ CallGeneralizedPermutation
    \/ CallIET
    \/ CallPermutationOfObject
    \/ CallGeneralizedPermutationOfObject
    \/ CallIETOfObject

Spec == Init /\ [][Next]_vars

(* ------------------------ building diagrams --------------------------- *)

RauzyDiagramCall(arg, reduced, flips, alphabet, sw) ==
    [fn |-> "RauzyDiagram", arg |-> arg, reduced |-> reduced, flips |-> flips,
     alphabet |-> alphabet, sw |-> sw]

NoSwitches == Switches(None, None, None, None, None)

AllSwitches ==
    {Switches(r, l, lr, tb, sy) :
        r \in OptBool, l \in OptBool, lr \in OptBool, tb \in OptBool, sy \in OptBool}

\* The seeds of the examples, with a, b, c, d written 1, 2, 3, 4:
\* 'a b c' / 'c b a', 'a b b' / 'c c a' and 'a b c d' / 'd b c a'.
SeedABC == TwoArgs(<<1, 2, 3>>, <<3, 2, 1>>)

SeedABB == TwoArgs(<<1, 2, 2>>, <<3, 3, 1>>)

SeedABCD == TwoArgs(<<1, 2, 3, 4>>, <<4, 2, 3, 1>>)

\* The permutation objects built from rows, as seeds given as objects.
SeedObjects ==
    {p \in {GeneralizedPermutation(TwoArgs(top, bottom), reduced, flips, None) :
                top \in Rows, bottom \in Rows, reduced \in OptBool, flips \in OptFlips} :
        IsPermutation(p)}

RauzyCalls ==
    {RauzyDiagramCall(TwoArgs(top, bottom), reduced, flips, alphabet, NoSwitches) :
        top \in Rows, bottom \in Rows, reduced \in OptBool, flips \in OptFlips,
        alphabet \in OptAlphabet}
    \cup
    {RauzyDiagramCall(ObjArg(p), reduced, None, None, NoSwitches) :
        p \in SeedObjects, reduced \in OptBool}
    \cup
    {RauzyDiagramCall(seed, reduced, None, None, sw) :
        seed \in {SeedABC, SeedABB}, reduced \in {None, Some(TRUE)}, sw \in AllSwitches}
    \cup
    {RauzyDiagramCall(SeedABCD, reduced, None, None, sw) :
        reduced \in {None, Some(TRUE)},
        sw \in {NoSwitches, Switches(None, None, None, None, Some(TRUE))}}

InitRauzy ==
    /\ call \in RauzyCalls
    /\ res = NoResult
    /\ diagram = NoDiagram

\* RauzyDiagram(top, bottom, ...): the seed is built and the diagram
\* explored in the one call.
CallRauzyDiagram ==
    /\ res = NoResult
    /\ diagram = NoDiagram
    /\ call.fn = "RauzyDiagram"
    /\ LET r == RauzyDiagram(call.arg, call.reduced, call.flips, call.alphabet, call.sw)
       IN IF IsRaise(r)
          THEN res' = r /\ diagram' = diagram
          ELSE res' = [tag |-> "returned"] /\ diagram' = r
    /\ UNCHANGED call

NextRauzy == CallRauzyDiagram

SpecRauzy == InitRauzy /\ [][NextRauzy]_vars

(* ------------------------------ claims -------------------------------- *)

\* The call of the state has returned or raised.
Returned == res # NoResult

\* The rows a permutation constructor works on.
RowsOfCall == IF call.arg.form = "obj" THEN list_of(call.arg.p) ELSE <<call.arg.top, call.arg.bottom>>

LettersOfCall == Range(RowsOfCall[1]) \cup Range(RowsOfCall[2])

\* Both rows are arrangements of the same set of labels.
ArrangementsOfSameLabels(top, bottom) ==
    /\ Range(top) = Range(bottom)
    /\ Len(top) = Cardinality(Range(top))
    /\ Len(bottom) = Cardinality(Range(bottom))

\* The flips given with the call name only labels of the rows.
FlipsOfCallInRows == call.flips = None \/ call.flips[1] \subseteq LettersOfCall

OnRows(fn) == call.fn = fn /\ call.arg.form = "two" /\ Returned

\* C1: Permutation(rows) returns a permutation only if both rows are
\* arrangements of the same label set; for any other rows it returns no
\* permutation and, the flips naming labels of the rows, raises ValueError
\* 'letters must appear once in each interval'.
C1_PermutationOnceInEachRow ==
    OnRows("Permutation") =>
        LET valid == ArrangementsOfSameLabels(call.arg.top, call.arg.bottom)
        IN /\ IsPermutation(res) => valid
           /\ ~valid => IsRaise(res)
           /\ (~valid /\ FlipsOfCallInRows) => res = Raise("ValueError", MsgOnce)
           /\ (valid /\ FlipsOfCallInRows) => IsPermutation(res)

\* Rows with a label twice in the bottom row are rejected by Permutation.
C1_Witness ==
    /\ OnRows("Permutation")
    /\ call.flips = None
    /\ Count(call.arg.top, 1) = 1
    /\ Count(call.arg.bottom, 1) = 2
    /\ res = Raise("ValueError", MsgOnce)

\* Every label occurs exactly twice in the two rows together.
TwiceInTotal(top, bottom) ==
    \A x \in Range(top) \cup Range(bottom) : Count(top, x) + Count(bottom, x) = 2

\* Some label occurs twice in the row.
HasDouble(row) == \E x \in Range(row) : Count(row, x) = 2

\* C2 as stated: GeneralizedPermutation(rows) accepts every pair of rows in
\* which each label occurs twice in total, and raises the multiplicity error
\* exactly when some label does not.
C2_AcceptsAllTwiceInTotal ==
    OnRows("GeneralizedPermutation") =>
        LET twice == TwiceInTotal(call.arg.top, call.arg.bottom)
        IN /\ (twice /\ FlipsOfCallInRows) => IsPermutation(res)
           /\ (res = Raise("ValueError", MsgTwice)) <=> ~twice

\* C2 amended: the flips naming labels of the rows, GeneralizedPermutation
\* raises ValueError 'letters must appear twice' exactly when some label does
\* not occur twice in total; rows with every label twice in total are accepted
\* unless exactly one of the two rows holds a label twice, and then the call
\* raises ValueError 'no admissible length'.
C2_TwiceInTotalUnlessOneRowDoubled ==
    (OnRows("GeneralizedPermutation") /\ FlipsOfCallInRows) =>
        LET twice == TwiceInTotal(call.arg.top, call.arg.bottom)
            onesided == HasDouble(call.arg.top) # HasDouble(call.arg.bottom)
        IN /\ (res = Raise("ValueError", MsgTwice)) <=> ~twice
           /\ (twice /\ onesided) => res = Raise("ValueError", MsgNoLength)
           /\ (twice /\ ~onesided) => IsPermutation(res)

\* Rows 'a a' / 'b b' are accepted, rows 'a a' / '' are not.
C2_Witness ==
    /\ OnRows("GeneralizedPermutation")
    /\ call.flips = None
    /\ TwiceInTotal(call.arg.top, call.arg.bottom)
    /\ HasDouble(call.arg.top)
    /\ ~HasDouble(call.arg.bottom)
    /\ res = Raise("ValueError", MsgNoLength)

IsPermutationCall == call.fn \in {"Permutation", "GeneralizedPermutation"} /\ Returned

\* C3: Permutation and GeneralizedPermutation raise ValueError 'flips contains
\* not valid letters' when the flips given hold a label that is in neither
\* row, and never raise it when every flip label is in the rows.
C3_InvalidFlipLetter ==
    IsPermutationCall =>
        /\ ~FlipsOfCallInRows => res = Raise("ValueError", MsgFlips)
        /\ FlipsOfCallInRows => res # Raise("ValueError", MsgFlips)

\* Flips with one label of the rows and one label outside them are rejected.
C3_Witness ==
    /\ OnRows("GeneralizedPermutation")
    /\ call.flips # None
    /\ call.flips[1] \cap LettersOfCall # {}
    /\ call.flips[1] \ LettersOfCall # {}
    /\ res = Raise("ValueError", MsgFlips)

\* C4: a call with flips=[] returns what the same call returns with the flips
\* left out.
C4_EmptyFlipsAsNoFlips ==
    (IsPermutationCall /\ call.flips = Some({})) =>
        res = IF call.fn = "Permutation"
              THEN Permutation(call.arg, call.reduced, None, call.alphabet)
              ELSE GeneralizedPermutation(call.arg, call.reduced, None, call.alphabet)

\* A constructor was given the permutation object p alone.
OfObjectAlone(fn) ==
    /\ call.fn = fn
    /\ call.arg.form = "obj"
    /\ call.reduced = None
    /\ call.flips = None
    /\ call.alphabet = None

\* C5: Permutation(p) for a permutation p of IET kind, and
\* GeneralizedPermutation(p) for any permutation p, return a permutation equal
\* to p with the mode, the flipped or unflipped variant, the flips and the
\* alphabet of p; Permutation(p, reduced=True) equals p.reduced().
C5_RoundTrip ==
    /\ ( \/ OfObjectAlone("GeneralizedPermutation")
         \/ OfObjectAlone("Permutation") /\ call.arg.p.cls \notin LIClasses ) =>
            /\ IsPermutation(res)
            /\ PermEq(res, call.arg.p)
            /\ res.reduced = call.arg.p.reduced
            /\ (res.cls \in FlippedClasses) = (call.arg.p.cls \in FlippedClasses)
            /\ flips_of(res) = flips_of(call.arg.p)
            /\ alphabet_of(res) = alphabet_of(call.arg.p)
    /\ ( /\ call.fn = "Permutation"
         /\ call.arg.form = "obj"
         /\ call.arg.p.cls \notin LIClasses
         /\ call.reduced = Some(TRUE)
         /\ call.flips = None
         /\ call.alphabet = None ) =>
            IsPermutation(res) /\ PermEq(res, reduced_of(call.arg.p))

IETReturned == call.fn = "IntervalExchangeTransformation" /\ Returned

\* Every entry of the lengths is a number.
AllNumbers(vals) == \A i \in DOMAIN vals : vals[i].kind = "number"

\* C6 as stated: a length less than or equal to zero is rejected with the
\* error on the sign of the lengths, and every numeric IET returned has all
\* its lengths strictly positive.
C6_PositiveLengths ==
    IETReturned =>
        LET p == PermutationOfIET(call.permutation)
            vals == call.lengths.vals
        IN /\ IsIET(res) => \A i \in DOMAIN vals : vals[i].v > 0
           /\ ( /\ IsPermutation(p)
                /\ Len(vals) = Len(p.a[1])
                /\ AllNumbers(vals)
                /\ \E i \in DOMAIN vals : vals[i].v <= 0 ) =>
                    (IsRaise(res) /\ res.exc = "ValueError" /\ res.msg = MsgNegative)

\* The lengths [0, 1] on the permutation ('a b', 'b a'): line 839 tests
\* x < 0, so the zero passes and a numeric IET with a length that is not
\* positive is returned.
C6_Witness ==
    /\ IETReturned
    /\ IsIET(res)
    /\ call.permutation.form = "tuple"
    /\ call.permutation.top = <<1, 2>>
    /\ call.permutation.bottom = <<2, 1>>
    /\ ~call.lengths.dict
    /\ call.lengths.vals = <<Number(0), Number(1)>>

\* The numeral '-1' as a length is rejected by the comparison with zero,
\* as a TypeError.
NumeralRejected ==
    /\ IETReturned
    /\ call.lengths.vals = <<Numeral(-1)>>
    /\ res = Raise("TypeError", MsgNotOrdered)

\* C7: a permutation object that carries flips is refused with TypeError
\* 'interval exchange with flips not yet implemented' whatever the lengths,
\* and no numeric IET returned has a flipped permutation.
C7_NoFlippedIET ==
    IETReturned =>
        /\ (call.permutation.form = "obj" /\ call.permutation.p.cls \in FlippedClasses) =>
                res = Raise("TypeError", MsgNotFlippable)
        /\ IsIET(res) => res.p.cls \notin FlippedClasses

\* C8: once the permutation is obtained, a number of lengths other than the
\* number of letters raises ValueError 'bad number of lengths' whatever the
\* values of the lengths are, and every numeric IET returned has one length
\* for each letter.
C8_BadNumberOfLengths ==
    IETReturned =>
        LET p == PermutationOfIET(call.permutation)
            vals == call.lengths.vals
        IN /\ (IsPermutation(p) /\ Len(vals) # Cardinality(Range(p.a[1]))) =>
                res = Raise("ValueError", MsgBadNumber)
           /\ IsIET(res) => Len(res.lengths.vals) = Cardinality(Range(res.p.a[1] \o res.p.a[2]))
           /\ (res = Raise("ValueError", MsgBadNumber)) =>
                (IsPermutation(p) /\ Len(vals) # Cardinality(Range(p.a[1])))

\* More lengths than letters, one of them negative and one that is no number:
\* the number of lengths is reported.
C8_Witness ==
    /\ IETReturned
    /\ call.permutation.form = "obj"
    /\ Len(call.lengths.vals) > Len(call.permutation.p.a[1])
    /\ \E i \in DOMAIN call.lengths.vals : call.lengths.vals[i].v < 0
    /\ \E i \in DOMAIN call.lengths.vals : call.lengths.vals[i].kind # "number"
    /\ res = Raise("ValueError", MsgBadNumber)

\* RauzyDiagram has returned or raised.
RauzyStarted == call.fn = "RauzyDiagram" /\ Returned

\* The switch is on: as the caller gave it, else as the signature says.
SwitchOn(given, default) == IF given = None THEN default ELSE given[1]

\* The switch that a kind of edge needs.
SwitchOfKind(kind) ==
    CASE kind \in {"right_top", "right_bottom"} -> SwitchOn(call.sw.right_induction, TRUE)
      [] kind \in {"left_top", "left_bottom"} -> SwitchOn(call.sw.left_induction, FALSE)
      [] kind = "left_right_inversion" -> SwitchOn(call.sw.left_right_inversion, FALSE)
      [] kind = "top_bottom_inversion" -> SwitchOn(call.sw.top_bottom_inversion, FALSE)
      [] kind = "symmetric" -> SwitchOn(call.sw.symmetric, FALSE)

\* C9: RauzyDiagram builds its seed with GeneralizedPermutation from the
\* options of the caller (reduced off by default), so that seeds of IET kind
\* and of linear-involution kind are accepted and an invalid seed raises
\* and leaves no diagram; the diagram holds the five switches as given,
\* right_induction on and the four others off by default, and no edge is of a
\* kind whose switch is off.
C9_SeedAndSwitches ==
    RauzyStarted =>
        LET seed == GeneralizedPermutation(call.arg, Some(SwitchOn(call.reduced, FALSE)),
                                           call.flips, call.alphabet)
        IN IF IsRaise(seed)
           THEN res = seed /\ diagram = NoDiagram
           ELSE /\ diagram.tag = "diagram"
                /\ diagram.p = seed
                /\ diagram.p.reduced = (call.reduced = Some(TRUE))
                /\ call.arg.form = "two" =>
                        /\ diagram.p.a = <<call.arg.top, call.arg.bottom>>
                        /\ diagram.p.alphabet = call.alphabet
                        /\ diagram.p.flips \in {call.flips, None}
                        /\ diagram.p.flips = None => call.flips \in {None, Some({})}
                /\ diagram.right_induction = SwitchOn(call.sw.right_induction, TRUE)
                /\ diagram.left_induction = SwitchOn(call.sw.left_induction, FALSE)
                /\ diagram.left_right_inversion = SwitchOn(call.sw.left_right_inversion, FALSE)
                /\ diagram.top_bottom_inversion = SwitchOn(call.sw.top_bottom_inversion, FALSE)
                /\ diagram.symmetric = SwitchOn(call.sw.symmetric, FALSE)
                /\ \A e \in diagram.edges : SwitchOfKind(e.kind)

\* The diagram of the linear involution 'a b b' / 'c c a' with right induction
\* switched off, left induction switched on and the other switches left out
\* is returned with edges.
C9_Witness ==
    /\ call.fn = "RauzyDiagram"
    /\ res.tag = "returned"
    /\ call.arg = SeedABB
    /\ call.sw = Switches(Some(FALSE), Some(TRUE), None, None, None)
    /\ diagram.p.cls = "LabelledPermutationLI"
    /\ diagram.edges # {}
    /\ \A e \in diagram.edges : e.kind \in {"left_top", "left_bottom"}

\* The caller asks for right induction alone.
RightInductionOnly ==
    /\ call.sw.right_induction \in {None, Some(TRUE)}
    /\ call.sw.left_induction \in {None, Some(FALSE)}
    /\ call.sw.left_right_inversion \in {None, Some(FALSE)}
    /\ call.sw.top_bottom_inversion \in {None, Some(FALSE)}
    /\ call.sw.symmetric \in {None, Some(FALSE)}

\* C10: with right induction alone, the diagram of 'a b b' / 'c c a' has 12
\* vertices when labelled and 4 when reduced, the labelled diagram of
\* 'a b c' / 'c b a' has 3 vertices, and the diagram of 'a b c d' / 'd b c a'
\* has 12 vertices when labelled and 6 when reduced.
C10_Cardinality ==
    (call.fn = "RauzyDiagram" /\ res.tag = "returned" /\ RightInductionOnly) =>
        /\ call.arg = SeedABB =>
                Cardinality(diagram.vertices) = IF call.reduced = Some(TRUE) THEN 4 ELSE 12
        /\ (call.arg = SeedABC /\ call.reduced # Some(TRUE)) =>
                Cardinality(diagram.vertices) = 3
        /\ call.arg = SeedABCD =>
                Cardinality(diagram.vertices) = IF call.reduced = Some(TRUE) THEN 6 ELSE 12

\* The reduced diagram of 'a b b' / 'c c a' is returned with its 4 vertices.
C10_Witness ==
    /\ call.fn = "RauzyDiagram"
    /\ res.tag = "returned"
    /\ call.arg = SeedABB
    /\ call.sw = NoSwitches
    /\ call.reduced = Some(TRUE)
    /\ diagram.p.cls = "ReducedPermutationLI"
    /\ Cardinality(diagram.vertices) = 4

(* ------------------- paths, matrices, substitutions ------------------- *)

PathLabels == 3

MaxPath == 6

\* The arrangements of the first n labels, for n up to PathLabels.
PathRows ==
    {r \in UNION {[1..n -> 1..n] : n \in 1..PathLabels} :
        \A i, j \in DOMAIN r : r[i] = r[j] => i = j}

\* The labels 1..n from the last to the first.
DescendingTo(n) == [i \in 1..n |-> n + 1 - i]

\* Permutation(top, bottom) and Permutation(top, bottom, alphabet=...) on
\* arrangements of the same labels.
PathCalls ==
    {PermutationCall(TwoArgs(t[1], t[2]), None, None, t[3]) :
        t \in {x \in PathRows \X PathRows \X
                        ({None} \cup {Some(DescendingTo(n)) : n \in 1..PathLabels}) :
                  /\ Len(x[1]) = Len(x[2])
                  /\ x[3] # None => Len(x[3][1]) = Len(x[1])}}

\* identity_matrix(n)
IdentityMatrix(n) == [i \in 1..n |-> [j \in 1..n |-> IF i = j THEN 1 ELSE 0]]

\* m * k for two n x n matrices
MatMul(m, k) ==
    [i \in DOMAIN m |-> [j \in DOMAIN m |->
        LET RECURSIVE Sum(_)
            Sum(t) == IF t = 0 THEN 0 ELSE m[i][t] * k[t][j] + Sum(t - 1)
        IN Sum(Len(m))]]

\* rauzy_move_matrix with the unit at row loser, column winner
rauzy_move_matrix_Transposed(v, winner, alphabet) ==
    LET w == Index(alphabet, Last(v.a[winner]))
        l == Index(alphabet, Last(v.a[3 - winner]))
    IN [i \in DOMAIN alphabet |-> [j \in DOMAIN alphabet |->
            IF i = j \/ (i = l /\ j = w) THEN 1 ELSE 0]]

\* rauzy_move_matrix with rows and columns in the order of the top row
rauzy_move_matrix_ByTopRow(v, winner, alphabet) ==
    LET w == Index(v.a[1], Last(v.a[winner]))
        l == Index(v.a[1], Last(v.a[3 - winner]))
    IN [i \in DOMAIN alphabet |-> [j \in DOMAIN alphabet |->
            IF i = j \/ (i = w /\ j = l) THEN 1 ELSE 0]]

\* p.rauzy_move_matrix(winner): the identity with one unit more at the row
\* of the winning letter and the column of the losing letter, rows and
\* columns in the order of the alphabet.
rauzy_move_matrix(v, winner, alphabet) ==
    LET w == Index(alphabet, Last(v.a[winner]))
        l == Index(alphabet, Last(v.a[3 - winner]))
    IN [i \in DOMAIN alphabet |-> [j \in DOMAIN alphabet |->
            IF i = j \/ (i = w /\ j = l) THEN 1 ELSE 0]]

\* The image of the word w under the substitution s.
RECURSIVE ImageOf(_, _)
ImageOf(s, w) == IF w = <<>> THEN <<>> ELSE s[Head(w)] \o ImageOf(s, Tail(w))

\* s * t: the substitution t followed by the substitution s.
ComposeSubstitutions(s, t) == [x \in DOMAIN t |-> ImageOf(s, t[x])]

\* p.rauzy_move_orbit_substitution(winner): every letter is kept but the
\* losing one, which becomes the last letter of the bottom row followed by
\* the last letter of the top row.
rauzy_move_orbit_substitution(v, winner) ==
    [x \in Range(v.a[1]) |->
        IF x = Last(v.a[3 - winner]) THEN <<Last(v.a[2]), Last(v.a[1])>> ELSE <<x>>]

\* s.incidence_matrix(): entry (i, j) counts the i-th letter in the image of
\* the j-th letter.
incidence_matrix(s, alphabet) ==
    [i \in DOMAIN alphabet |-> [j \in DOMAIN alphabet |->
        Count(s[alphabet[j]], alphabet[i])]]

\* The empty path at the permutation p.
EmptyPath(p) ==
    [tag |-> "path", alphabet |-> alphabet_of(p),
     start |-> Vertex(list_of(p), flips_of(p)), end |-> Vertex(list_of(p), flips_of(p)),
     before |-> Vertex(list_of(p), flips_of(p)), edges |-> <<>>,
     matrix |-> IdentityMatrix(len_of(p)),
     substitution |-> [x \in Range(list_of(p)[1]) |-> <<x>>],
     edge_matrix |-> IdentityMatrix(len_of(p))]

\* r.path(p, ..., winner): the path g with one more edge; g.matrix() and
\* g.orbit_substitution() compose the edges from the first to the last.
ExtendedPath(g, winner) ==
    [g EXCEPT !.before = g.end,
              !.end = RightInduction(g.end, winner)[1],
              !.edges = Append(g.edges, winner),
              !.matrix = MatMul(g.matrix, rauzy_move_matrix(g.end, winner, g.alphabet)),
              !.substitution =
                  ComposeSubstitutions(g.substitution,
                                       rauzy_move_orbit_substitution(g.end, winner)),
              !.edge_matrix = rauzy_move_matrix(g.end, winner, g.alphabet)]

InitPath ==
    /\ call \in PathCalls
    /\ res = NoResult
    /\ diagram = NoDiagram

\* The path of length 0 at p
StartPath ==
    /\ IsPermutation(res)
    /\ diagram = NoDiagram
    /\ diagram' = EmptyPath(res)
    /\ UNCHANGED <<call, res>>

\* One more edge, 'top' (winner = 1) or 'bottom' (winner = 2)
ExtendPath ==
    /\ diagram.tag = "path"
    /\ Len(diagram.edges) < MaxPath
    /\ \E winner \in 1..2 :
        /\ RightInduction(diagram.end, winner) # None
        /\ diagram' = ExtendedPath(diagram, winner)
    /\ UNCHANGED <<call, res>>

NextPath ==
    \/ CallPermutation
    \/ StartPath
    \/ ExtendPath

SpecPath == InitPath /\ [][NextPath]_vars

\* The example path: 'top', 'bottom', 'top', 'bottom' from 'a b c' / 'c b a'.
OnExamplePath ==
    /\ diagram.tag = "path"
    /\ diagram.start.a = <<<<1, 2, 3>>, <<3, 2, 1>>>>
    /\ diagram.alphabet = <<1, 2, 3>>

\* C11: along every path of right inductions, the incidence matrix of the
\* orbit substitution of the path is the matrix of the path, entry by entry.
C11_SubstitutionMatrix ==
    diagram.tag = "path" =>
        incidence_matrix(diagram.substitution, diagram.alphabet) = diagram.matrix

\* The path top, bottom, top, bottom, top, bottom of the example, with the
\* matrix and the substitution a -> acbbc, b -> acbbcbbc, c -> acbc.
C11_Witness ==
    /\ OnExamplePath
    /\ diagram.edges = <<1, 2, 1, 2, 1, 2>>
    /\ diagram.end = diagram.start
    /\ diagram.matrix = <<<<1, 1, 1>>, <<2, 4, 1>>, <<2, 3, 2>>>>
    /\ diagram.substitution[1] = <<1, 3, 2, 2, 3>>
    /\ diagram.substitution[2] = <<1, 3, 2, 2, 3, 2, 2, 3>>
    /\ diagram.substitution[3] = <<1, 3, 2, 3>>

\* The last edge of the path of the state: its winning and losing letters
\* and their places in the alphabet.
HasEdge == diagram.tag = "path" /\ diagram.edges # <<>>

WinnerOfEdge == Last(diagram.before.a[Last(diagram.edges)])

LoserOfEdge == Last(diagram.before.a[3 - Last(diagram.edges)])

PlaceOf(letter) == Index(diagram.alphabet, letter)

\* The identity matrix with one unit more at (row, column).
IdentityPlusUnit(n, row, column) ==
    [i \in 1..n |-> [j \in 1..n |-> IF i = j \/ (i = row /\ j = column) THEN 1 ELSE 0]]

\* The path made of the edge 'top' alone from 'a b' / 'b a'.
TopFromAB ==
    /\ HasEdge
    /\ diagram.start.a = <<<<1, 2>>, <<2, 1>>>>
    /\ diagram.edges = <<1>>

\* C13 as stated: the elementary matrix of a right induction is the identity
\* with one unit more at the row of the losing letter and the column of the
\* winning letter, rows and columns in the order of the alphabet.
C13_UnitAtLoserWinner ==
    HasEdge =>
        diagram.edge_matrix =
            IdentityPlusUnit(Len(diagram.alphabet), PlaceOf(LoserOfEdge), PlaceOf(WinnerOfEdge))

\* C13, amended: the elementary matrix of a right induction is the identity
\* with one unit more at the row of the winning letter and the column of the
\* losing letter, rows and columns in the order of the alphabet; the matrix
\* of 'top' on 'a b' / 'b a' is [1 0; 1 1] for the alphabet 'ab' and
\* [1 1; 0 1] for the alphabet 'ba'.
C13_UnitAtWinnerLoser ==
    /\ HasEdge =>
        diagram.edge_matrix =
            IdentityPlusUnit(Len(diagram.alphabet), PlaceOf(WinnerOfEdge), PlaceOf(LoserOfEdge))
    /\ TopFromAB =>
        diagram.edge_matrix =
            IF diagram.alphabet = <<1, 2>> THEN <<<<1, 0>>, <<1, 1>>>>
            ELSE <<<<1, 1>>, <<0, 1>>>>

\* 'top' has been applied to 'a b' / 'b a' with the alphabet 'ba': b wins,
\* a loses, and the unit is in the first row, second column.
C13_Witness ==
    /\ TopFromAB
    /\ diagram.alphabet = <<2, 1>>
    /\ WinnerOfEdge = 2
    /\ LoserOfEdge = 1
    /\ diagram.edge_matrix = <<<<1, 1>>, <<0, 1>>>>

(* ------------------------- numeric interval maps ---------------------- *)

MaxLength == 2

\* The lists of numbers 0..MaxLength given as lengths.
NumericLengths ==
    UNION {[1..n -> {Number(k) : k \in 0..MaxLength}] : n \in 1..PathLabels}

\* IntervalExchangeTransformation((top, bottom), lengths) on arrangements of
\* the same labels, with as many lengths.
RuntimeCalls ==
    {IETCall(PairArg(t[1], t[2]), ListLengths(t[3])) :
        t \in {x \in PathRows \X PathRows \X NumericLengths :
                  Len(x[1]) = Len(x[2]) /\ Len(x[3]) = Len(x[1])}}

\* A numeric interval exchange: the rows of its permutation and the length
\* of every label.
Map(top, bottom, lengths) ==
    [tag |-> "map", top |-> top, bottom |-> bottom, lengths |-> lengths]

\* The interval exchange _IET(p, lengths) builds: the i-th length goes to the
\* i-th letter of the alphabet.
MapOfIET(T) ==
    Map(list_of(T.p)[1], list_of(T.p)[2],
        [x \in Range(list_of(T.p)[1]) |-> T.lengths.vals[Index(alphabet_of(T.p), x)].v])

\* The sum of the lengths of the first k labels of a row.
RECURSIVE LengthUpTo(_, _, _)
LengthUpTo(lengths, row, k) ==
    IF k = 0 THEN 0 ELSE lengths[row[k]] + LengthUpTo(lengths, row, k - 1)

\* T.length()
TotalLength(T) == LengthUpTo(T.lengths, T.top, Len(T.top))

\* inverse with the lengths following the places, not the labels
inverse_LengthsByPlace(T) ==
    Map(T.bottom, T.top,
        [x \in Range(T.top) |-> T.lengths[T.top[Index(T.bottom, x)]]])

\* T.inverse(): the two rows change places, every label keeps its length.
inverse(T) == Map(T.bottom, T.top, T.lengths)

\* The pieces cut by the ends of the intervals of other (after it acts) and
\* of self (before it acts), from the left: one piece per pair of intervals
\* met together, the walk stopping when either row is used up.
RECURSIVE Pieces(_, _, _, _, _)
Pieces(self, other, i_other, i_self, x) ==
    IF i_other > Len(other.bottom) \/ i_self > Len(self.top) THEN <<>>
    ELSE LET sg_other == LengthUpTo(other.lengths, other.bottom, i_other)
             sg_self == LengthUpTo(self.lengths, self.top, i_self)
             piece(l) == [other |-> other.bottom[i_other], self |-> self.top[i_self], l |-> l]
         IN IF sg_other < sg_self
            THEN <<piece(sg_other - x)>> \o Pieces(self, other, i_other + 1, i_self, sg_other)
            ELSE IF sg_other > sg_self
            THEN <<piece(sg_self - x)>> \o Pieces(self, other, i_other, i_self + 1, sg_self)
            ELSE <<piece(sg_self - x)>> \o Pieces(self, other, i_other + 1, i_self + 1, sg_self)

\* The labels <<label of other, label of self>> of the pieces, row by row.
RECURSIVE TopOfPieces(_, _)
TopOfPieces(pieces, row) ==
    IF row = <<>> THEN <<>>
    ELSE LET here(q) == q.other = Head(row)
             mine == SelectSeq(pieces, here)
         IN [k \in DOMAIN mine |-> <<mine[k].other, mine[k].self>>]
              \o TopOfPieces(pieces, Tail(row))

RECURSIVE BottomOfPieces(_, _)
BottomOfPieces(pieces, row) ==
    IF row = <<>> THEN <<>>
    ELSE LET here(q) == q.self = Head(row)
             mine == SelectSeq(pieces, here)
         IN [k \in DOMAIN mine |-> <<mine[k].other, mine[k].self>>]
              \o BottomOfPieces(pieces, Tail(row))

\* self * other: other first, then self; defined for equal total lengths.
compose(self, other) ==
    IF TotalLength(self) # TotalLength(other)
    THEN Raise("LengthMismatchError", "the two maps act on intervals of different lengths")
    ELSE LET pieces == Pieces(self, other, 1, 1, 0)
             top == TopOfPieces(pieces, other.top)
             bottom == BottomOfPieces(pieces, self.bottom)
         IN Map(top, bottom,
                [lab \in Range(top) |->
                    (CHOOSE q \in Range(pieces) : <<q.other, q.self>> = lab).l])

\* T.is_identity(): the two rows are the same.
is_identity(T) == T.top = T.bottom

NoMaps == [tag |-> "none"]

InitRuntime ==
    /\ call \in RuntimeCalls
    /\ res = NoResult
    /\ diagram = NoMaps

\* S = T.inverse()
Invert ==
    /\ IsIET(res)
    /\ diagram = NoMaps
    /\ diagram' = [tag |-> "maps", T |-> MapOfIET(res), S |-> inverse(MapOfIET(res)),
                   product |-> NoMaps, factors |-> "none"]
    /\ UNCHANGED <<call, res>>

\* S * T
ComposeInverseLeft ==
    /\ diagram.tag = "maps"
    /\ diagram.factors = "none"
    /\ diagram' = [diagram EXCEPT !.product = compose(diagram.S, diagram.T), !.factors = "S*T"]
    /\ UNCHANGED <<call, res>>

\* T * S
ComposeInverseRight ==
    /\ diagram.tag = "maps"
    /\ diagram.factors = "none"
    /\ diagram' = [diagram EXCEPT !.product = compose(diagram.T, diagram.S), !.factors = "T*S"]
    /\ UNCHANGED <<call, res>>

\* T * T
ComposeSquare ==
    /\ diagram.tag = "maps"
    /\ diagram.factors = "none"
    /\ diagram' = [diagram EXCEPT !.product = compose(diagram.T, diagram.T), !.factors = "T*T"]
    /\ UNCHANGED <<call, res>>

NextRuntime ==
    \/ CallIET
    \/ Invert
    \/ ComposeInverseLeft
    \/ ComposeInverseRight
    \/ ComposeSquare

SpecRuntime == InitRuntime /\ [][NextRuntime]_vars

\* C12: the inverse of a numeric interval exchange T has the total length
\* of T and the rows of T in the other order, and both products of T and
\* its inverse are the identity: their two rows are the same.
C12_InverseLaw ==
    diagram.tag = "maps" =>
        /\ TotalLength(diagram.S) = TotalLength(diagram.T)
        /\ diagram.S.top = list_of(res.p)[2]
        /\ diagram.S.bottom = list_of(res.p)[1]
        /\ diagram.factors \in {"S*T", "T*S"} =>
              /\ diagram.product.tag = "map"
              /\ is_identity(diagram.product)

\* T on 'a b' / 'b a' with the lengths 2 and 1: T * T is 'aa ab ba' over
\* 'ab ba aa'.
SquareOfExample ==
    /\ diagram.tag = "maps"
    /\ diagram.T.top = <<1, 2>>
    /\ diagram.T.bottom = <<2, 1>>
    /\ diagram.T.lengths[1] = 2
    /\ diagram.T.lengths[2] = 1
    /\ diagram.factors = "T*T"
    /\ diagram.product.top = <<<<1, 1>>, <<1, 2>>, <<2, 1>>>>
    /\ diagram.product.bottom = <<<<1, 2>>, <<2, 1>>, <<1, 1>>>>

\* T * S of the example, T on 'a b' / 'b a' with the lengths 2 and 1 and S
\* its inverse on 'b a' / 'a b': the product has the rows 'bb aa' twice.
C12_Witness ==
    /\ diagram.tag = "maps"
    /\ diagram.factors = "T*S"
    /\ diagram.T.top = <<1, 2>>
    /\ diagram.T.bottom = <<2, 1>>
    /\ diagram.T.lengths[1] = 2
    /\ diagram.T.lengths[2] = 1
    /\ diagram.S.top = <<2, 1>>
    /\ diagram.product.top = <<<<2, 2>>, <<1, 1>>>>
    /\ diagram.product.bottom = <<<<2, 2>>, <<1, 1>>>>
    /\ is_identity(diagram.product)

(* ----------------------- pairs of permutations ------------------------ *)

\* Permutation(top, bottom, reduced=..., flips=..., alphabet=...) on rows
\* of labels.
PermutationCallsOnRows ==
    {PermutationCall(TwoArgs(top, bottom), reduced, flips, alphabet) :
        top \in Rows, bottom \in Rows, reduced \in OptBool, flips \in OptFlips,
        alphabet \in OptAlphabet}

\* The permutations these calls return.
PermutationsOnRows ==
    {q \in {Permutation(c.arg, c.reduced, c.flips, c.alphabet) : c \in PermutationCallsOnRows} :
        IsPermutation(q)}

NoOther == [tag |-> "none"]

InitPairs ==
    /\ call \in PermutationCallsOnRows
    /\ res = NoResult
    /\ diagram = NoOther

\* q = Permutation(...), a second permutation to compare the first with
BuildOther ==
    /\ IsPermutation(res)
    /\ diagram = NoOther
    /\ \E q \in PermutationsOnRows : diagram' = [tag |-> "other", q |-> q]
    /\ UNCHANGED <<call, res>>

NextPairs ==
    \/ CallPermutation
    \/ BuildOther

SpecPairs == InitPairs /\ [][NextPairs]_vars

\* Two permutations p and q are there to be compared.
HasPair == IsPermutation(res) /\ diagram.tag = "other"

\* The rows p shows with every letter replaced by its rank of discovery,
\* and the ranks of the flipped letters.
SignedPattern(p) ==
    <<Pattern(list_of(p)), {Index(Discovery(list_of(p)), x) : x \in flips_of(p)}>>

\* C14: two reduced permutations are equal exactly when their rows show the
\* same pattern (flipped places included) whatever their labels and
\* alphabets; two labelled permutations with the same rows and different
\* ordered alphabets are not equal; a reduced permutation is not equal to a
\* labelled one built from the same rows.
C14_EqualityRespectsMode ==
    HasPair =>
        LET p == res
            q == diagram.q
        IN /\ (p.reduced /\ q.reduced) =>
                (PermEq(p, q) <=> SignedPattern(p) = SignedPattern(q))
           /\ (~p.reduced /\ ~q.reduced /\ list_of(p) = list_of(q)
                 /\ alphabet_of(p) # alphabet_of(q)) => ~PermEq(p, q)
           /\ (p.reduced # q.reduced /\ p.a = q.a) => (~PermEq(p, q) /\ ~PermEq(q, p))

\* Two reduced permutations over different labels with the same pattern,
\* found equal: 'a b' / 'b a' and 'b a' / 'a b'.
C14_Witness ==
    /\ HasPair
    /\ res.reduced
    /\ diagram.q.reduced
    /\ res.a = <<<<1, 2>>, <<2, 1>>>>
    /\ diagram.q.a = <<<<2, 1>>, <<1, 2>>>>
    /\ res.alphabet # diagram.q.alphabet
    /\ PermEq(res, diagram.q)

\* Two labelled permutations with the rows 'a b' / 'b a' and the alphabets
\* 'ab' and 'ba', found different.
LabelledPairWithTwoAlphabets ==
    /\ HasPair
    /\ ~res.reduced
    /\ ~diagram.q.reduced
    /\ res.a = <<<<1, 2>>, <<2, 1>>>>
    /\ diagram.q.a = res.a
    /\ alphabet_of(res) = <<1, 2>>
    /\ alphabet_of(diagram.q) = <<2, 1>>
    /\ ~PermEq(res, diagram.q)

(* ------------------- kinds and wrapped permutations ------------------- *)

\* The linear-involution class the options ask for: reduced (by default not)
\* or labelled, flipped when flips is given.
ClassLIAskedFor ==
    IF call.reduced = Some(TRUE)
    THEN IF call.flips = None THEN "ReducedPermutationLI" ELSE "FlippedReducedPermutationLI"
    ELSE IF call.flips = None THEN "LabelledPermutationLI" ELSE "FlippedLabelledPermutationLI"

\* C15: every label occurring twice in total (and the flips naming labels of
\* the rows), GeneralizedPermutation returns what Permutation returns for
\* the same rows and options when every label is once in each row, a
\* linear-involution class, reduced or labelled by the reduced option and
\* flipped or not by whether flips is given, when both rows hold a label
\* twice, and raises 'no admissible length' when exactly one row does; the
\* removal of the labels that are once in each row never raises.
C15_KindFromCounts ==
    /\ (call.fn = "GeneralizedPermutation" /\ Returned) =>
            ~(IsRaise(res) /\ res.msg \notin {MsgFlips, MsgTwice, MsgNoLength, MsgOnce})
    /\ (OnRows("GeneralizedPermutation") /\ FlipsOfCallInRows
          /\ TwiceInTotal(call.arg.top, call.arg.bottom)) =>
        LET top == call.arg.top
            bottom == call.arg.bottom
        IN /\ (~HasDouble(top) /\ ~HasDouble(bottom)) =>
                /\ IsPermutation(res)
                /\ res.cls \notin LIClasses
                /\ res = Permutation(call.arg, call.reduced, call.flips, call.alphabet)
           /\ (HasDouble(top) /\ HasDouble(bottom)) =>
                /\ IsPermutation(res)
                /\ res.cls = ClassLIAskedFor
                /\ res.a = <<top, bottom>>
           /\ (HasDouble(top) # HasDouble(bottom)) =>
                res = Raise("ValueError", MsgNoLength)

\* Rows 'a b' / 'b a' given to GeneralizedPermutation with reduced=True: the
\* reduced IET class, as Permutation returns it.
C15_Witness ==
    /\ OnRows("GeneralizedPermutation")
    /\ call.arg.top = <<1, 2>>
    /\ call.arg.bottom = <<2, 1>>
    /\ call.reduced = Some(TRUE)
    /\ call.flips = None
    /\ IsPermutation(res)
    /\ res.cls = "ReducedPermutationIET"
    /\ res = Permutation(call.arg, call.reduced, call.flips, call.alphabet)

\* Rows 'a a' / 'b b' with flips: a flipped linear-involution class.
FlippedLIReturned ==
    /\ OnRows("GeneralizedPermutation")
    /\ call.arg.top = <<1, 1>>
    /\ call.arg.bottom = <<2, 2>>
    /\ call.flips = Some({1})
    /\ IsPermutation(res)
    /\ res.cls = "FlippedLabelledPermutationLI"

\* The rows of the permutation argument of IntervalExchangeTransformation,
\* as the argument shows them.
RowsOfPermutationArg ==
    IF call.permutation.form = "obj" THEN list_of(call.permutation.p)
    ELSE <<call.permutation.top, call.permutation.bottom>>

\* Some label of the argument is not exactly once in each row.
LIKindArg == ~ArrangementsOfSameLabels(RowsOfPermutationArg[1], RowsOfPermutationArg[2])

\* The argument is a reduced permutation, or a tuple that asks for one.
ReducedArg ==
    \/ call.permutation.form = "obj" /\ call.permutation.p.reduced
    \/ call.permutation.form = "tuple" /\ call.permutation.reduced = Some(TRUE)

\* The argument is a permutation object that carries flips.
FlippedObjectArg == call.permutation.form = "obj" /\ has_flips(call.permutation.p)

\* The argument is a tuple whose flips name a label of neither row.
TupleWithForeignFlips ==
    /\ call.permutation.form = "tuple"
    /\ call.permutation.flips # None
    /\ ~(call.permutation.flips[1] \subseteq
            Range(call.permutation.top) \cup Range(call.permutation.bottom))

\* Every interval exchange returned wraps a permutation with every label
\* once in each row, and a reduced argument is wrapped with the rows it shows.
WrapsIETKind ==
    IsIET(res) =>
        /\ IsPermutation(res.p)
        /\ res.p.cls \notin LIClasses
        /\ ArrangementsOfSameLabels(list_of(res.p)[1], list_of(res.p)[2])
        /\ ReducedArg => (res.p.reduced /\ list_of(res.p) = RowsOfPermutationArg)

\* C16 as stated: every interval exchange returned wraps a permutation of
\* IET kind; an argument with some label not exactly once in each row is
\* rejected with 'letters must appear once in each interval' whatever the
\* lengths; a reduced argument keeps its rows.
C16_LIRejectedByMultiplicity ==
    IETReturned =>
        /\ WrapsIETKind
        /\ LIKindArg => res = Raise("ValueError", MsgOnce)

\* C16, amended: every interval exchange returned wraps a permutation of IET
\* kind; an argument with some label not exactly once in each row is
\* rejected whatever the lengths: with TypeError 'interval exchange with
\* flips not yet implemented' when it is a permutation object that carries
\* flips, with ValueError 'flips contains not valid letters' when it is a
\* tuple whose flips name a label of neither row, and with 'letters must
\* appear once in each interval' otherwise; a reduced argument keeps its rows.
C16_LIRejectedBeforeLengths ==
    IETReturned =>
        /\ WrapsIETKind
        /\ LIKindArg =>
              res = IF FlippedObjectArg THEN Raise("TypeError", MsgNotFlippable)
                    ELSE IF TupleWithForeignFlips THEN Raise("ValueError", MsgFlips)
                    ELSE Raise("ValueError", MsgOnce)

\* A labelled linear involution 'a a' / 'b b' without flips, given as an
\* object with two lengths, is rejected by the multiplicity test.
C16_Witness ==
    /\ IETReturned
    /\ call.permutation.form = "obj"
    /\ call.permutation.p.cls = "LabelledPermutationLI"
    /\ list_of(call.permutation.p) = <<<<1, 1>>, <<2, 2>>>>
    /\ Len(call.lengths.vals) = 2
    /\ res = Raise("ValueError", MsgOnce)

\* A reduced permutation shown as 'b a' / 'a b' is wrapped with these rows.
ReducedArgWrapped ==
    /\ IETReturned
    /\ call.permutation.form = "obj"
    /\ call.permutation.p.reduced
    /\ call.permutation.p.a # list_of(call.permutation.p)
    /\ IsIET(res)
    /\ list_of(res.p) = list_of(call.permutation.p)

====
